---- MODULE Spec2Model ----
\* Model of the ClusterQueue accounting core of pkg/cache/clusterqueue.go:
\* quota reconfiguration, flavor reconciliation, workload admission and
\* removal, local-queue registration, and the borrowing predicates.
EXTENDS FiniteSets, Integers, Naturals, Sequences, TLC

\* ---------------------------------------------------------------------
\* Bounds and input domains
\* ---------------------------------------------------------------------

NumWl == 2

WlIds == 1..NumWl

Resources == {"cpu", "gpu"}

FlavorNames == {"A", "B"}

\* Flavor registries: partial maps flavor name -> node-label keys.
Registries == { [f \in {} |-> {}],
                "A" :> {"zone"},
                "A" :> {"zone"} @@ "B" :> {"zone", "gpu"},
                "A" :> {} @@ "B" :> {"zone"} }

\* Namespace selectors of the ClusterQueue spec; "bad" does not parse.
Selectors == {"all", "bad"}

\* Spec.Preemption: "nil" when the field is absent.
PreemptionInputs == {"nil", "lowerPriority"}

\* kueue.ClusterQueue Spec.ResourceGroups inputs (valid configurations:
\* disjoint covered resources, each flavor listed once, each flavor's
\* resources equal to its group's covered resources). Quantities are in
\* spec units (cpu in cores).
Cfg0 == <<>>

Cfg1 == << [cov |-> {"gpu"},
            flavors |-> << [name |-> "A", res |-> [r \in {"gpu"} |-> 10]] >>] >>

Cfg2 == << [cov |-> {"cpu", "gpu"},
            flavors |-> << [name |-> "A", res |-> ("cpu" :> 1 @@ "gpu" :> 10)],
                           [name |-> "B", res |-> ("cpu" :> 1 @@ "gpu" :> 0)] >>] >>

Cfg3 == << [cov |-> {"cpu"}, flavors |-> << >>],
           [cov |-> {"gpu"},
            flavors |-> << [name |-> "B", res |-> [r \in {"gpu"} |-> 10]],
                           [name |-> "A", res |-> [r \in {"gpu"} |-> 10]] >>] >>

Configs == {Cfg0, Cfg1, Cfg2, Cfg3}

\* workload.Info inputs: namespace, Spec.QueueName and TotalRequests, each
\* pod set with its normalized requests and its assigned flavors.
Info1 == [ns |-> "ns1", queue |-> "lq1",
          ps |-> << [req |-> [r \in {"gpu"} |-> 5], flv |-> [r \in {"gpu"} |-> "A"]] >>]

Info2 == [ns |-> "ns1", queue |-> "lq1",
          ps |-> << [req |-> ("cpu" :> 600 @@ "gpu" :> 6),
                     flv |-> ("cpu" :> "B" @@ "gpu" :> "A")] >>]

Info3 == [ns |-> "ns2", queue |-> "lq1",
          ps |-> << [req |-> [r \in {"gpu"} |-> 5], flv |-> [r \in {"gpu"} |-> "B"]],
                    [req |-> [r \in {"cpu"} |-> 500],
                     flv |-> ("cpu" :> "A" @@ "gpu" :> "A")] >>]

Infos == {Info1, Info2, Info3}

\* kueue.LocalQueue inputs (namespace, name).
LocalQueueInputs == {[ns |-> "ns1", name |-> "lq1"], [ns |-> "ns2", name |-> "lq1"]}

\* ---------------------------------------------------------------------
\* State
\* ---------------------------------------------------------------------

VARIABLES
    ResourceGroups,     \* Seq([cov, flavors: Seq([name, res]), labelKeys])
    RGByResource,       \* resource name -> index into ResourceGroups
    Usage,              \* flavor -> resource -> quantity
    Workloads,          \* workload key -> workload.Info
    WorkloadsNotReady,  \* set of workload keys
    NamespaceSelector,
    Preemption,
    Status,
    localQueues,        \* queue key -> [admittedWorkloads, usage]
    podsReadyTracking,
    Cohort,             \* TRUE iff the queue has a Cohort
    lastOp,             \* the last operation applied and how it returned
    coMembers,          \* members of a cohort (CohortSpec only)
    coResult,           \* << >>, or <<result of HasBorrowingQueues>> (CohortSpec only)
    streams,            \* pending events of one generation, per stream (InterleaveSpec only)
    acct                \* workloads not fully counted in Usage (AccountSpec only)

vars == <<ResourceGroups, RGByResource, Usage, Workloads, WorkloadsNotReady,
          NamespaceSelector, Preemption, Status, localQueues, podsReadyTracking,
          Cohort, lastOp, coMembers, coResult, streams, acct>>

cqVars == <<ResourceGroups, RGByResource, Usage, Workloads, WorkloadsNotReady,
            NamespaceSelector, Preemption, Status, localQueues, podsReadyTracking,
            Cohort, lastOp>>

NoUsage == [f \in {} |-> [r \in {} |-> 0]]

NoRegistry == [f \in {} |-> {}]

\* Accounting history: the tracked workloads some of whose commitment is
\* not counted in Usage, and whether such a workload has been removed.
NoAcct == [partial |-> {}, partialRemoved |-> FALSE]

\* One generation of events: the setup and quota streams (configs), the
\* flavor-registry stream (registries), the registry in force, the workload
\* and local-queue streams; whether a workload event ran while quota events
\* were pending; and the generation as it started.
Generation(setup, quota, flv, reg, wl, lq) ==
    [setup |-> setup, quota |-> quota, flv |-> flv, reg |-> reg, wl |-> wl, lq |-> lq,
     wlEarly |-> FALSE,
     start |-> [setup |-> setup, quota |-> quota, flv |-> flv, reg |-> reg, wl |-> wl, lq |-> lq]]

NoStreams == Generation(<< >>, << >>, << >>, NoRegistry, << >>, << >>)

\* The last operation: its name, its workload key, local-queue key or
\* flavor registry, whether it returned early, and Usage before an admit.
Op(name, err) == [op |-> name, wl |-> 0, key |-> "", reg |-> NoRegistry, err |-> err, pre |-> NoUsage]

\* ---------------------------------------------------------------------
\* Helpers
\* ---------------------------------------------------------------------

\* workload.ResourceValue: cpu in milli-units, other resources as is.
ResourceValue(r, q) == IF r = "cpu" THEN q * 1000 ELSE q

\* queueKey / workload.QueueKey: "namespace/name".
QueueKey(ns, name) == ns \o "/" \o name

Max(S) == CHOOSE x \in S : \A y \in S : y <= x

\* updateResourceGroups: rebuild the groups from the spec, LabelKeys nil.
BuildResourceGroups(in) ==
    [i \in 1..Len(in) |->
        [cov |-> in[i].cov,
         flavors |-> [j \in 1..Len(in[i].flavors) |->
                        [name |-> in[i].flavors[j].name,
                         res |-> [r \in DOMAIN in[i].flavors[j].res |->
                                    ResourceValue(r, in[i].flavors[j].res[r])]]],
         labelKeys |-> {}]]

\* Mutant: every resource points at the last group, as a pointer to a
\* reused loop variable would.
UpdateRGByResourceLastGroup(rgs) ==
    [r \in UNION {rgs[i].cov : i \in 1..Len(rgs)} |-> Len(rgs)]

\* UpdateRGByResource: groups visited in order, later groups overwrite.
UpdateRGByResource(rgs) ==
    [r \in UNION {rgs[i].cov : i \in 1..Len(rgs)} |->
        Max({i \in 1..Len(rgs) : r \in rgs[i].cov})]

\* The flavor quotas of all groups, in order.
RECURSIVE FlatFlavors(_)
FlatFlavors(rgs) ==
    IF rgs = << >> THEN << >> ELSE rgs[1].flavors \o FlatFlavors(Tail(rgs))

\* Mutant: surviving cells restart at zero instead of keeping their count.
RECURSIVE PruneUsageReset(_, _, _)
PruneUsageReset(fqs, old, acc) ==
    IF fqs = << >> THEN acc
    ELSE LET f == Head(fqs)
             row == [r \in DOMAIN f.res |-> 0]
         IN PruneUsageReset(Tail(fqs), old,
                            [g \in DOMAIN acc \cup {f.name} |->
                                IF g = f.name THEN row ELSE acc[g]])

\* update, "Cleanup removed flavors or resources": one entry per listed
\* flavor, later listings overwrite earlier ones.
RECURSIVE PruneUsage(_, _, _)
PruneUsage(fqs, old, acc) ==
    IF fqs = << >> THEN acc
    ELSE LET f == Head(fqs)
             row == [r \in DOMAIN f.res |->
                        IF f.name \in DOMAIN old /\ r \in DOMAIN old[f.name]
                        THEN old[f.name][r] ELSE 0]
         IN PruneUsage(Tail(fqs), old,
                       [g \in DOMAIN acc \cup {f.name} |->
                           IF g = f.name THEN row ELSE acc[g]])

\* updateLabelKeys: the new groups and whether a flavor was not found.
LabelKeysOf(rg, reg) ==
    UNION {reg[rg.flavors[j].name] :
              j \in {k \in 1..Len(rg.flavors) : rg.flavors[k].name \in DOMAIN reg}}

UpdateLabelKeys(rgs, reg) ==
    [i \in 1..Len(rgs) |->
        IF Len(rgs[i].flavors) = 0
        THEN [rgs[i] EXCEPT !.labelKeys = {}]
        ELSE IF LabelKeysOf(rgs[i], reg) # {}
             THEN [rgs[i] EXCEPT !.labelKeys = LabelKeysOf(rgs[i], reg)]
             ELSE rgs[i]]

\* Mutant: only the first group's flavors are looked up.
FlavorNotFoundFirstGroup(rgs, reg) ==
    Len(rgs) > 0 /\ \E j \in 1..Len(rgs[1].flavors) : rgs[1].flavors[j].name \notin DOMAIN reg

FlavorNotFound(rgs, reg) ==
    \E i \in 1..Len(rgs) : \E j \in 1..Len(rgs[i].flavors) :
        rgs[i].flavors[j].name \notin DOMAIN reg

\* Mutant: the search stops after the first group.
FlavorInUseFirstGroup(rgs, flavor) ==
    Len(rgs) > 0 /\ \E j \in 1..Len(rgs[1].flavors) : rgs[1].flavors[j].name = flavor

\* ClusterQueue.flavorInUse: scan groups and flavors in order, return at
\* the first match.
RECURSIVE FlavorInUseFrom(_, _, _, _)
FlavorInUseFrom(rgs, flavor, i, j) ==
    IF i > Len(rgs) THEN FALSE
    ELSE IF j > Len(rgs[i].flavors) THEN FlavorInUseFrom(rgs, flavor, i + 1, 1)
    ELSE IF rgs[i].flavors[j].name = flavor THEN TRUE
    ELSE FlavorInUseFrom(rgs, flavor, i, j + 1)

FlavorInUse(rgs, flavor) == FlavorInUseFrom(rgs, flavor, 1, 1)

\* Mutant: the Terminating guard is missing.
StatusAfterFlavorsUnguarded(cur, rgs, reg) ==
    IF FlavorNotFound(rgs, reg) THEN "pending" ELSE "active"

\* UpdateWithFlavors: the new Status.
StatusAfterFlavors(cur, rgs, reg) ==
    LET status == IF FlavorNotFound(rgs, reg) THEN "pending" ELSE "active"
    IN IF cur # "terminating" THEN status ELSE cur

\* Mutant: the sign m is dropped (flv[wlRes] += v).
ApplyPodSetUnsigned(ps, fu, m) ==
    [f \in DOMAIN fu |->
        [r \in DOMAIN fu[f] |->
            fu[f][r] + (IF r \in DOMAIN ps.flv /\ ps.flv[r] = f /\ r \in DOMAIN ps.req
                        THEN ps.req[r] ELSE 0)]]

\* Mutant: a missing resource cell under a present flavor is created
\* instead of being skipped.
ApplyPodSetCreate(ps, fu, m) ==
    [f \in DOMAIN fu |->
        [r \in DOMAIN fu[f] \cup { x \in DOMAIN ps.flv \cap DOMAIN ps.req : ps.flv[x] = f } |->
            (IF r \in DOMAIN fu[f] THEN fu[f][r] ELSE 0)
            + (IF r \in DOMAIN ps.flv /\ ps.flv[r] = f /\ r \in DOMAIN ps.req
               THEN ps.req[r] * m ELSE 0)]]

\* updateUsage: one pod set.
ApplyPodSet(ps, fu, m) ==
    [f \in DOMAIN fu |->
        [r \in DOMAIN fu[f] |->
            fu[f][r] + (IF r \in DOMAIN ps.flv /\ ps.flv[r] = f /\ r \in DOMAIN ps.req
                        THEN ps.req[r] * m ELSE 0)]]

\* updateUsage: all pod sets of the workload.
RECURSIVE UpdateUsagePS(_, _, _, _)
UpdateUsagePS(pss, i, fu, m) ==
    IF i > Len(pss) THEN fu ELSE UpdateUsagePS(pss, i + 1, ApplyPodSet(pss[i], fu, m), m)

UpdateUsage(wi, fu, m) == UpdateUsagePS(wi.ps, 1, fu, m)

\* Mutant: admittedWorkloads is only ever incremented.
UpdateLocalQueuesUsageCountUp(lqs, wi, m) ==
    LET k == QueueKey(wi.ns, wi.queue) IN
    IF k \in DOMAIN lqs
    THEN [lqs EXCEPT ![k] = [admittedWorkloads |-> @.admittedWorkloads + 1,
                             usage |-> UpdateUsage(wi, @.usage, m)]]
    ELSE lqs

\* updateWorkloadUsage: the new local queues (Usage handled by the caller).
UpdateLocalQueuesUsage(lqs, wi, m) ==
    LET k == QueueKey(wi.ns, wi.queue) IN
    IF k \in DOMAIN lqs
    THEN [lqs EXCEPT ![k] = [admittedWorkloads |-> @.admittedWorkloads + m,
                             usage |-> UpdateUsage(wi, @.usage, m)]]
    ELSE lqs

\* Mutant: the queue's cells are copied from the ClusterQueue's usage
\* instead of being carried over from the queue's own ledger.
ResetFlavorsAndResourcesCopy(qUsage, cqUsage) ==
    [f \in DOMAIN cqUsage |-> [r \in DOMAIN cqUsage[f] |-> cqUsage[f][r]]]

\* queue.resetFlavorsAndResources
ResetFlavorsAndResources(qUsage, cqUsage) ==
    [f \in DOMAIN cqUsage |->
        [r \in DOMAIN cqUsage[f] |->
            IF f \in DOMAIN qUsage /\ r \in DOMAIN qUsage[f] THEN qUsage[f][r] ELSE 0]]

\* Mutant: the local queues' ledgers restart from zero on every update.
ResetLocalQueuesZero(lqs, cqUsage) ==
    [k \in DOMAIN lqs |->
        [admittedWorkloads |-> lqs[k].admittedWorkloads,
         usage |-> ResetFlavorsAndResources(NoUsage, cqUsage)]]

\* Every registered local queue's ledger carried onto the new Usage shape;
\* admitted counts are kept.
ResetLocalQueues(lqs, cqUsage) ==
    [k \in DOMAIN lqs |->
        [admittedWorkloads |-> lqs[k].admittedWorkloads,
         usage |-> ResetFlavorsAndResources(lqs[k].usage, cqUsage)]]

\* workloadBelongsToLocalQueue
\* Mutant: the namespace is not compared.
WorkloadBelongsToLocalQueueByName(wi, q) == wi.queue = q.name

WorkloadBelongsToLocalQueue(wi, q) == wi.ns = q.ns /\ wi.queue = q.name

\* addLocalQueue: fold the matching workloads into the new queue.
RECURSIVE Backfill(_, _, _, _)
Backfill(ids, wls, q, acc) ==
    IF ids = {} THEN acc
    ELSE LET id == CHOOSE x \in ids : TRUE
             next == IF WorkloadBelongsToLocalQueue(wls[id], q)
                     THEN [admittedWorkloads |-> acc.admittedWorkloads + 1,
                           usage |-> UpdateUsage(wls[id], acc.usage, 1)]
                     ELSE acc
         IN Backfill(ids \ {id}, wls, q, next)

\* IsBorrowing over a queue's fields.
\* Mutant: usage equal to the nominal quota counts as borrowing.
IsBorrowingOfAtNominal(hasCohort, rgs, usage) ==
    IF ~hasCohort \/ DOMAIN usage = {} THEN FALSE
    ELSE \E i \in 1..Len(rgs) : \E j \in 1..Len(rgs[i].flavors) :
            LET fq == rgs[i].flavors[j] IN
            /\ fq.name \in DOMAIN usage
            /\ \E r \in DOMAIN fq.res :
                  LET used == IF r \in DOMAIN usage[fq.name] THEN usage[fq.name][r] ELSE 0
                  IN used >= fq.res[r]

IsBorrowingOf(hasCohort, rgs, usage) ==
    IF ~hasCohort \/ DOMAIN usage = {} THEN FALSE
    ELSE \E i \in 1..Len(rgs) : \E j \in 1..Len(rgs[i].flavors) :
            LET fq == rgs[i].flavors[j] IN
            /\ fq.name \in DOMAIN usage
            /\ \E r \in DOMAIN fq.res :
                  LET used == IF r \in DOMAIN usage[fq.name] THEN usage[fq.name][r] ELSE 0
                  IN used > fq.res[r]

IsBorrowing == IsBorrowingOf(Cohort, ResourceGroups, Usage)

\* ---------------------------------------------------------------------
\* Initial state and operations
\* ---------------------------------------------------------------------

\* A queue as the cache creates it when its quota spec first syncs: empty
\* resource groups, ledger and workload set, made (writable) maps, and pod
\* readiness tracking on or off as the cache was configured.
Init ==
    /\ ResourceGroups = << >>
    /\ RGByResource = [r \in {} |-> 0]
    /\ Usage = NoUsage
    /\ Workloads = [w \in {} |-> Info1]
    /\ WorkloadsNotReady = {}
    /\ NamespaceSelector = "nil"
    /\ Preemption = "zero"
    /\ Status = ""
    /\ localQueues = [k \in {} |-> 0]
    /\ podsReadyTracking \in BOOLEAN
    /\ Cohort = FALSE
    /\ lastOp = Op("none", FALSE)
    /\ coMembers = {}
    /\ coResult = << >>
    /\ streams = NoStreams
    /\ acct = NoAcct

\* The quota-update event: ClusterQueue.update(in, resourceFlavors) and, when
\* it succeeds, resetFlavorsAndResources of every registered local queue.
Update(cfg, sel, pre, reg) ==
    LET rgs == BuildResourceGroups(cfg) IN
    IF sel = "bad"
    THEN /\ ResourceGroups' = rgs
         /\ RGByResource' = UpdateRGByResource(rgs)
         /\ lastOp' = Op("update", TRUE)
         /\ UNCHANGED <<Usage, Workloads, WorkloadsNotReady, NamespaceSelector,
                        Preemption, Status, localQueues, podsReadyTracking, Cohort,
                        coMembers, coResult>>
    ELSE LET usage == PruneUsage(FlatFlavors(rgs), Usage, NoUsage) IN
         /\ ResourceGroups' = UpdateLabelKeys(rgs, reg)
         /\ RGByResource' = UpdateRGByResource(rgs)
         /\ NamespaceSelector' = sel
         /\ Usage' = usage
         /\ Status' = StatusAfterFlavors(Status, rgs, reg)
         /\ Preemption' = IF pre = "nil" THEN "default" ELSE pre
         /\ localQueues' = ResetLocalQueues(localQueues, usage)
         /\ lastOp' = Op("update", FALSE)
         /\ UNCHANGED <<Workloads, WorkloadsNotReady, podsReadyTracking,
                        Cohort, coMembers, coResult>>

\* ClusterQueue.UpdateWithFlavors(flavors)
UpdateWithFlavors(reg) ==
    /\ ResourceGroups' = UpdateLabelKeys(ResourceGroups, reg)
    /\ Status' = StatusAfterFlavors(Status, ResourceGroups, reg)
    /\ lastOp' = [Op("updateWithFlavors", FALSE) EXCEPT !.reg = reg]
    /\ UNCHANGED <<RGByResource, Usage, Workloads, WorkloadsNotReady, NamespaceSelector,
                   Preemption, localQueues, podsReadyTracking, Cohort, coMembers, coResult>>

\* Mutant: the entry and its usage are recorded before the duplicate check.
AddWorkloadLateCheck(id, wi, ready) ==
    /\ Workloads' = (id :> wi) @@ Workloads
    /\ Usage' = UpdateUsage(wi, Usage, 1)
    /\ localQueues' = UpdateLocalQueuesUsage(localQueues, wi, 1)
    /\ WorkloadsNotReady' = IF podsReadyTracking /\ ~ready
                            THEN WorkloadsNotReady \cup {id} ELSE WorkloadsNotReady
    /\ lastOp' = [Op("addWorkload", id \in DOMAIN Workloads) EXCEPT !.wl = id, !.pre = Usage]
    /\ UNCHANGED <<ResourceGroups, RGByResource, NamespaceSelector, Preemption,
                   Status, podsReadyTracking, Cohort, coMembers, coResult>>

\* ClusterQueue.addWorkload(w)
AddWorkload(id, wi, ready) ==
    IF id \in DOMAIN Workloads
    THEN /\ lastOp' = [Op("addWorkload", TRUE) EXCEPT !.wl = id]
         /\ UNCHANGED <<ResourceGroups, RGByResource, Usage, Workloads, WorkloadsNotReady,
                        NamespaceSelector, Preemption, Status, localQueues,
                        podsReadyTracking, Cohort, coMembers, coResult>>
    ELSE /\ Workloads' = (id :> wi) @@ Workloads
         /\ Usage' = UpdateUsage(wi, Usage, 1)
         /\ localQueues' = UpdateLocalQueuesUsage(localQueues, wi, 1)
         /\ WorkloadsNotReady' = IF podsReadyTracking /\ ~ready
                                 THEN WorkloadsNotReady \cup {id} ELSE WorkloadsNotReady
         /\ lastOp' = [Op("addWorkload", FALSE) EXCEPT !.wl = id, !.pre = Usage]
         /\ UNCHANGED <<ResourceGroups, RGByResource, NamespaceSelector, Preemption,
                        Status, podsReadyTracking, Cohort, coMembers, coResult>>

\* ClusterQueue.deleteWorkload(w)
DeleteWorkload(id, ready) ==
    IF id \notin DOMAIN Workloads
    THEN /\ lastOp' = [Op("deleteWorkload", TRUE) EXCEPT !.wl = id]
         /\ UNCHANGED <<ResourceGroups, RGByResource, Usage, Workloads, WorkloadsNotReady,
                        NamespaceSelector, Preemption, Status, localQueues,
                        podsReadyTracking, Cohort, coMembers, coResult>>
    ELSE LET wi == Workloads[id] IN
         /\ Usage' = UpdateUsage(wi, Usage, -1)
         /\ localQueues' = UpdateLocalQueuesUsage(localQueues, wi, -1)
         /\ WorkloadsNotReady' = IF podsReadyTracking /\ ~ready
                                 THEN WorkloadsNotReady \ {id} ELSE WorkloadsNotReady
         /\ Workloads' = [x \in DOMAIN Workloads \ {id} |-> Workloads[x]]
         /\ lastOp' = [Op("deleteWorkload", FALSE) EXCEPT !.wl = id]
         /\ UNCHANGED <<ResourceGroups, RGByResource, NamespaceSelector, Preemption,
                        Status, podsReadyTracking, Cohort, coMembers, coResult>>

\* ClusterQueue.addLocalQueue(q)
AddLocalQueue(q) ==
    LET k == QueueKey(q.ns, q.name) IN
    IF k \in DOMAIN localQueues
    THEN /\ lastOp' = [Op("addLocalQueue", TRUE) EXCEPT !.key = k]
         /\ UNCHANGED <<ResourceGroups, RGByResource, Usage, Workloads, WorkloadsNotReady,
                        NamespaceSelector, Preemption, Status, localQueues,
                        podsReadyTracking, Cohort, coMembers, coResult>>
    ELSE LET qImpl == Backfill(DOMAIN Workloads, Workloads, q,
                               [admittedWorkloads |-> 0,
                                usage |-> ResetFlavorsAndResources(NoUsage, Usage)])
         IN /\ localQueues' = (k :> qImpl) @@ localQueues
            /\ lastOp' = [Op("addLocalQueue", FALSE) EXCEPT !.key = k]
            /\ UNCHANGED <<ResourceGroups, RGByResource, Usage, Workloads, WorkloadsNotReady,
                           NamespaceSelector, Preemption, Status, podsReadyTracking,
                           Cohort, coMembers, coResult>>

\* Mutant: the key is built with namespace and name swapped.
DeleteLocalQueueSwapped(q) ==
    LET k == QueueKey(q.name, q.ns) IN
    /\ localQueues' = [x \in DOMAIN localQueues \ {k} |-> localQueues[x]]
    /\ lastOp' = [Op("deleteLocalQueue", FALSE) EXCEPT !.key = QueueKey(q.ns, q.name)]
    /\ UNCHANGED <<ResourceGroups, RGByResource, Usage, Workloads, WorkloadsNotReady,
                   NamespaceSelector, Preemption, Status, podsReadyTracking, Cohort,
                   coMembers, coResult>>

\* ClusterQueue.deleteLocalQueue(q)
DeleteLocalQueue(q) ==
    LET k == QueueKey(q.ns, q.name) IN
    /\ localQueues' = [x \in DOMAIN localQueues \ {k} |-> localQueues[x]]
    /\ lastOp' = [Op("deleteLocalQueue", FALSE) EXCEPT !.key = k]
    /\ UNCHANGED <<ResourceGroups, RGByResource, Usage, Workloads, WorkloadsNotReady,
                   NamespaceSelector, Preemption, Status, podsReadyTracking, Cohort,
                   coMembers, coResult>>

\* Cache.TerminateClusterQueue: the caller marks the queue terminating.
Terminate ==
    /\ Status' = "terminating"
    /\ lastOp' = Op("terminate", FALSE)
    /\ UNCHANGED <<ResourceGroups, RGByResource, Usage, Workloads, WorkloadsNotReady,
                   NamespaceSelector, Preemption, localQueues, podsReadyTracking, Cohort,
                   coMembers, coResult>>

\* Cache cohort membership: the queue joins or leaves its cohort.
SetCohort ==
    /\ Cohort' = ~Cohort
    /\ lastOp' = Op("setCohort", FALSE)
    /\ UNCHANGED <<ResourceGroups, RGByResource, Usage, Workloads, WorkloadsNotReady,
                   NamespaceSelector, Preemption, Status, localQueues, podsReadyTracking,
                   coMembers, coResult>>

\* The full event stream of the synchronization layer.
Next ==
    \/ \E cfg \in Configs, sel \in Selectors, pre \in PreemptionInputs, reg \in Registries :
          Update(cfg, sel, pre, reg) /\ UNCHANGED <<streams, acct>>
    \/ \E reg \in Registries : UpdateWithFlavors(reg) /\ UNCHANGED <<streams, acct>>
    \/ \E id \in WlIds, wi \in Infos, ready \in BOOLEAN : AddWorkload(id, wi, ready) /\ UNCHANGED <<streams, acct>>
    \/ \E id \in WlIds, ready \in BOOLEAN : DeleteWorkload(id, ready) /\ UNCHANGED <<streams, acct>>
    \/ \E q \in LocalQueueInputs : AddLocalQueue(q) /\ UNCHANGED <<streams, acct>>
    \/ \E q \in LocalQueueInputs : DeleteLocalQueue(q) /\ UNCHANGED <<streams, acct>>
    \/ Terminate /\ UNCHANGED <<streams, acct>>
    \/ SetCohort /\ UNCHANGED <<streams, acct>>

Spec == Init /\ [][Next]_vars

\* Usage accounting: quota reconfigurations (against the full registry)
\* interleaved with workload and local-queue events.
FullRegistry == "A" :> {"zone"} @@ "B" :> {"zone", "gpu"}

LedgerConfigs == {Cfg0, Cfg1, Cfg2}

LedgerInfos == {Info1, Info3}

LedgerQueue == [ns |-> "ns1", name |-> "lq1"]

LedgerNext ==
    \/ \E cfg \in LedgerConfigs, sel \in Selectors : Update(cfg, sel, "nil", FullRegistry) /\ UNCHANGED <<streams, acct>>
    \/ \E id \in WlIds, wi \in LedgerInfos : AddWorkload(id, wi, TRUE) /\ UNCHANGED <<streams, acct>>
    \/ \E id \in WlIds : DeleteWorkload(id, TRUE) /\ UNCHANGED <<streams, acct>>
    \/ AddLocalQueue(LedgerQueue) /\ UNCHANGED <<streams, acct>>
    \/ DeleteLocalQueue(LedgerQueue) /\ UNCHANGED <<streams, acct>>

LedgerSpec == Init /\ [][LedgerNext]_vars

\* Quota configuration, flavor reconciliation and termination.
FlavorNext ==
    \/ \E cfg \in Configs, sel \in Selectors, pre \in PreemptionInputs, reg \in Registries :
          Update(cfg, sel, pre, reg) /\ UNCHANGED <<streams, acct>>
    \/ \E reg \in Registries : UpdateWithFlavors(reg) /\ UNCHANGED <<streams, acct>>
    \/ Terminate /\ UNCHANGED <<streams, acct>>

FlavorSpec == Init /\ [][FlavorNext]_vars

\* Borrowing: quota, admissions and cohort membership.
BorrowInfos == {Info1, Info2}

BorrowNext ==
    \/ \E cfg \in LedgerConfigs, sel \in Selectors : Update(cfg, sel, "nil", FullRegistry) /\ UNCHANGED <<streams, acct>>
    \/ \E id \in WlIds, wi \in BorrowInfos : AddWorkload(id, wi, TRUE) /\ UNCHANGED <<streams, acct>>
    \/ \E id \in WlIds : DeleteWorkload(id, TRUE) /\ UNCHANGED <<streams, acct>>
    \/ SetCohort /\ UNCHANGED <<streams, acct>>

BorrowSpec == Init /\ [][BorrowNext]_vars

\* Admission and removal: reconfigurations that drop or create cells,
\* admits and removes of workloads in any readiness state.
AdmitConfigs == {Cfg0, Cfg1, Cfg3}

AdmitNext ==
    \/ \E cfg \in AdmitConfigs, sel \in Selectors : Update(cfg, sel, "nil", FullRegistry) /\ UNCHANGED <<streams, acct>>
    \/ \E id \in WlIds, wi \in Infos, ready \in BOOLEAN : AddWorkload(id, wi, ready) /\ UNCHANGED <<streams, acct>>
    \/ \E id \in WlIds, ready \in BOOLEAN : DeleteWorkload(id, ready) /\ UNCHANGED <<streams, acct>>

AdmitSpec == Init /\ [][AdmitNext]_vars

HasCell(u, f, r) == f \in DOMAIN u /\ r \in DOMAIN u[f]

\* What one pod set commits to cell (f, r): its request for r, if r was
\* assigned flavor f.
PodSetCommitment(ps, f, r) ==
    IF r \in DOMAIN ps.flv /\ ps.flv[r] = f /\ r \in DOMAIN ps.req THEN ps.req[r] ELSE 0

RECURSIVE SeqSum(_)
SeqSum(s) == IF s = << >> THEN 0 ELSE Head(s) + SeqSum(Tail(s))

WorkloadCommitment(wi, f, r) ==
    SeqSum([i \in 1..Len(wi.ps) |-> PodSetCommitment(wi.ps[i], f, r)])

\* Accounting: reconfigurations that drop or create cells, admits and
\* removes, and local-queue registrations, with the accounting history.
\* The cells a workload commits to that a ledger lacks.
MissingCells(wi, u) ==
    { c \in FlavorNames \X Resources : WorkloadCommitment(wi, c[1], c[2]) > 0 /\ ~HasCell(u, c[1], c[2]) }

\* After an admit: the workload is partial if a cell it commits to is absent.
AcctAdd(id, wi) ==
    acct' = IF id \in DOMAIN Workloads THEN acct
            ELSE [acct EXCEPT !.partial = IF MissingCells(wi, Usage) # {} THEN @ \cup {id}
                                          ELSE @ \ {id}]

\* After a remove: whether a partial workload left the ledger.
AcctDelete(id) ==
    acct' = IF id \notin DOMAIN Workloads THEN acct
            ELSE [partial |-> acct.partial \ {id},
                  partialRemoved |-> acct.partialRemoved \/ id \in acct.partial]

\* After a reconfiguration: tracked workloads whose cells were dropped.
AcctUpdate ==
    acct' = [acct EXCEPT !.partial =
                @ \cup { id \in DOMAIN Workloads : MissingCells(Workloads[id], Usage') # {} }]

AccountNext ==
    \/ \E cfg \in AdmitConfigs, sel \in Selectors :
          Update(cfg, sel, "nil", FullRegistry) /\ AcctUpdate /\ UNCHANGED streams
    \/ \E id \in WlIds, wi \in LedgerInfos :
          AddWorkload(id, wi, TRUE) /\ AcctAdd(id, wi) /\ UNCHANGED streams
    \/ \E id \in WlIds : DeleteWorkload(id, TRUE) /\ AcctDelete(id) /\ UNCHANGED streams
    \/ AddLocalQueue(LedgerQueue) /\ UNCHANGED <<streams, acct>>
    \/ DeleteLocalQueue(LedgerQueue) /\ UNCHANGED <<streams, acct>>

AccountSpec == Init /\ [][AccountNext]_vars

\* One generation of events from the independent watch streams: quota
\* specs (setup events first, then the quota stream), flavor registry
\* changes, workloads and local queues. Each stream is applied in order;
\* streams interleave freely.
WlAdd(id, wi) == [kind |-> "add", id |-> id, wi |-> wi]

WlDelete(id) == [kind |-> "delete", id |-> id, wi |-> Info1]

LqAdd(q) == [kind |-> "add", q |-> q]

LqDelete(q) == [kind |-> "delete", q |-> q]

\* A registry with flavor A only.
RegistryA == "A" :> {"zone"}

Generations ==
    { Generation(<< >>, <<Cfg1>>, <<FullRegistry>>, RegistryA,
                 <<WlAdd(1, Info1)>>, <<LqAdd(LedgerQueue)>>),
      Generation(<<Cfg2>>, <<Cfg1>>, <<RegistryA>>, FullRegistry,
                 <<WlAdd(1, Info3), WlDelete(1)>>, << >>),
      Generation(<<Cfg2>>, << >>, <<RegistryA, FullRegistry>>, FullRegistry,
                 <<WlAdd(1, Info1), WlAdd(2, Info3), WlDelete(1)>>,
                 <<LqAdd(LedgerQueue)>>),
      Generation(<<Cfg1>>, << >>, << >>, FullRegistry,
                 <<WlAdd(1, Info2), WlDelete(1), WlAdd(1, Info1)>>,
                 <<LqAdd(LedgerQueue), LqDelete(LedgerQueue), LqAdd(LedgerQueue)>>),
      Generation(<<Cfg3>>, << >>, <<RegistryA>>, FullRegistry,
                 <<WlAdd(1, Info3), WlAdd(2, Info1)>>,
                 <<LqAdd([ns |-> "ns2", name |-> "lq1"]), LqAdd(LedgerQueue)>>),
      Generation(<<Cfg2>>, << >>, << >>, FullRegistry,
                 <<WlAdd(1, Info1), WlAdd(2, Info2), WlDelete(2), WlAdd(2, Info3)>>,
                 <<LqAdd(LedgerQueue), LqAdd([ns |-> "ns2", name |-> "lq1"]),
                   LqDelete(LedgerQueue)>>),
      Generation(<<Cfg1>>, <<Cfg2, Cfg0>>, <<NoRegistry, FullRegistry>>, RegistryA,
                 <<WlAdd(1, Info2), WlDelete(1)>>, <<LqAdd(LedgerQueue)>>),
      Generation(<<Cfg1>>, <<Cfg3>>, <<RegistryA>>, FullRegistry,
                 <<WlAdd(1, Info1)>>, <<LqAdd(LedgerQueue)>>) }

InterleaveInit ==
    /\ ResourceGroups = << >>
    /\ RGByResource = [r \in {} |-> 0]
    /\ Usage = NoUsage
    /\ Workloads = [w \in {} |-> Info1]
    /\ WorkloadsNotReady = {}
    /\ NamespaceSelector = "nil"
    /\ Preemption = "zero"
    /\ Status = ""
    /\ localQueues = [k \in {} |-> 0]
    /\ podsReadyTracking \in BOOLEAN
    /\ Cohort = FALSE
    /\ lastOp = Op("none", FALSE)
    /\ coMembers = {}
    /\ coResult = << >>
    /\ streams \in Generations
    /\ acct = NoAcct

SetupStep ==
    /\ streams.setup # << >>
    /\ Update(Head(streams.setup), "all", "nil", streams.reg)
    /\ streams' = [streams EXCEPT !.setup = Tail(@)]
    /\ UNCHANGED acct

QuotaStep ==
    /\ streams.setup = << >> /\ streams.quota # << >>
    /\ Update(Head(streams.quota), "all", "nil", streams.reg)
    /\ streams' = [streams EXCEPT !.quota = Tail(@)]
    /\ UNCHANGED acct

FlavorStep ==
    /\ streams.setup = << >> /\ streams.flv # << >>
    /\ UpdateWithFlavors(Head(streams.flv))
    /\ streams' = [streams EXCEPT !.flv = Tail(@), !.reg = Head(streams.flv)]
    /\ UNCHANGED acct

WorkloadStep ==
    /\ streams.setup = << >> /\ streams.wl # << >>
    /\ LET e == Head(streams.wl) IN
       IF e.kind = "add" THEN AddWorkload(e.id, e.wi, TRUE) ELSE DeleteWorkload(e.id, TRUE)
    /\ streams' = [streams EXCEPT !.wl = Tail(@), !.wlEarly = @ \/ streams.quota # << >>]
    /\ UNCHANGED acct

LocalQueueStep ==
    /\ streams.setup = << >> /\ streams.lq # << >>
    /\ LET e == Head(streams.lq) IN
       IF e.kind = "add" THEN AddLocalQueue(e.q) ELSE DeleteLocalQueue(e.q)
    /\ streams' = [streams EXCEPT !.lq = Tail(@)]
    /\ UNCHANGED acct

InterleaveNext == SetupStep \/ QuotaStep \/ FlavorStep \/ WorkloadStep \/ LocalQueueStep

InterleaveSpec == InterleaveInit /\ [][InterleaveNext]_vars

\* ---------------------------------------------------------------------
\* Cohort.HasBorrowingQueues over a set of member queues
\* ---------------------------------------------------------------------

\* Mutant: the loop returns the first member's answer.
RECURSIVE HasBorrowingQueuesFirstOnly(_)
HasBorrowingQueuesFirstOnly(members) ==
    IF members = {} THEN FALSE
    ELSE LET cq == CHOOSE x \in members : TRUE
         IN IsBorrowingOf(cq.cohort, cq.rgs, cq.usage)

\* Cohort.HasBorrowingQueues: iterate the members, stop at the first
\* borrowing one.
RECURSIVE HasBorrowingQueues(_)
HasBorrowingQueues(members) ==
    IF members = {} THEN FALSE
    ELSE LET cq == CHOOSE x \in members : TRUE
         IN IF IsBorrowingOf(cq.cohort, cq.rgs, cq.usage) THEN TRUE
            ELSE HasBorrowingQueues(members \ {cq})

\* Member queues of a cohort (Cohort set, quotas and usage).
MemberStates ==
    { [cohort |-> TRUE, rgs |-> BuildResourceGroups(Cfg1),
       usage |-> [f \in {"A"} |-> [r \in {"gpu"} |-> v]]] : v \in {0, 10, 11} }
    \cup
    { [cohort |-> TRUE, rgs |-> BuildResourceGroups(Cfg2),
       usage |-> ("A" :> ("cpu" :> 0 @@ "gpu" :> v) @@ "B" :> ("cpu" :> 0 @@ "gpu" :> w))]
      : v \in {10, 11}, w \in {0, 1} }

CohortInit ==
    /\ ResourceGroups = << >>
    /\ RGByResource = [r \in {} |-> 0]
    /\ Usage = NoUsage
    /\ Workloads = [w \in {} |-> Info1]
    /\ WorkloadsNotReady = {}
    /\ NamespaceSelector = "nil"
    /\ Preemption = "zero"
    /\ Status = ""
    /\ localQueues = [k \in {} |-> 0]
    /\ podsReadyTracking \in BOOLEAN
    /\ Cohort = FALSE
    /\ lastOp = Op("none", FALSE)
    /\ coMembers \in SUBSET MemberStates
    /\ coResult = << >>
    /\ streams = NoStreams
    /\ acct = NoAcct

\* The preemption logic asks the cohort whether a member borrows.
EvaluateCohort ==
    /\ coResult = << >>
    /\ coResult' = <<HasBorrowingQueues(coMembers)>>
    /\ UNCHANGED <<cqVars, coMembers, streams, acct>>

CohortNext == EvaluateCohort

CohortSpec == CohortInit /\ [][CohortNext]_vars

\* ---------------------------------------------------------------------
\* Properties
\* ---------------------------------------------------------------------

UsageCells(u) == { <<f, r>> \in (DOMAIN u) \X Resources : r \in DOMAIN u[f] }

DeclaredCells(rgs) ==
    { <<f, r>> \in FlavorNames \X Resources :
        \E i \in 1..Len(rgs) : \E j \in 1..Len(rgs[i].flavors) :
            rgs[i].flavors[j].name = f /\ r \in DOMAIN rgs[i].flavors[j].res }

\* <<value>> for a present cell, << >> for an absent one.
CellValue(u, f, r) == IF HasCell(u, f, r) THEN <<u[f][r]>> ELSE << >>

\* C1: admitting an untracked workload and then removing it, with nothing
\* in between, restores every cell of Usage to its value before the admit.
AddDeleteRoundTrip ==
    [][ (/\ lastOp.op = "addWorkload" /\ ~lastOp.err
         /\ lastOp'.op = "deleteWorkload" /\ ~lastOp'.err
         /\ lastOp'.wl = lastOp.wl)
        => Usage' = lastOp.pre ]_vars

\* Witness C1: a workload was just admitted and changed Usage.
AddDeleteRoundTripWitness ==
    /\ lastOp.op = "addWorkload" /\ ~lastOp.err
    /\ Usage # lastOp.pre

\* C2: after a successful update, a cell declared before and after keeps
\* its Usage value, a cell declared only after is 0, and a cell not
\* declared after is absent from Usage.
UpdateCarriesUsage ==
    [][ (lastOp'.op = "update" /\ ~lastOp'.err) =>
        \A f \in FlavorNames, r \in Resources :
            LET before == <<f, r>> \in DeclaredCells(ResourceGroups)
                after == <<f, r>> \in DeclaredCells(ResourceGroups')
            IN /\ (before /\ after) => CellValue(Usage', f, r) = CellValue(Usage, f, r)
               /\ (after /\ ~before) => CellValue(Usage', f, r) = <<0>>
               /\ ~after => ~HasCell(Usage', f, r) ]_vars

\* C3: an update with a malformed namespace selector returns an error and
\* leaves ResourceGroups, RGByResource, Usage, NamespaceSelector, Status
\* and Preemption unchanged.
FailedUpdateLeavesQueue ==
    [][ (lastOp'.op = "update" /\ lastOp'.err) =>
        UNCHANGED <<ResourceGroups, RGByResource, Usage, NamespaceSelector,
                    Status, Preemption>> ]_vars

\* C4: the cells of Usage are exactly the flavor/resource pairs declared in
\* the ResourceGroups' flavor quotas.
UsageMatchesDeclared == UsageCells(Usage) = DeclaredCells(ResourceGroups)

\* C5: once Status is Terminating, UpdateWithFlavors and update leave it
\* Terminating.
TerminatingSticky ==
    [][ (Status = "terminating" /\ lastOp'.op \in {"updateWithFlavors", "update"})
        => Status' = "terminating" ]_vars

\* Witness C5: a reconcile that found every flavor ran on a terminating queue.
TerminatingStickyWitness ==
    /\ Status = "terminating"
    /\ lastOp.op = "updateWithFlavors"
    /\ ResourceGroups # << >>
    /\ \A i \in 1..Len(ResourceGroups) : \A j \in 1..Len(ResourceGroups[i].flavors) :
          ResourceGroups[i].flavors[j].name \in DOMAIN lastOp.reg

\* C6: after UpdateWithFlavors(registry) on a queue not Terminating, Status
\* is Pending iff a flavor named in some ResourceGroup is not registered,
\* and Active otherwise.
ReconcileStatus ==
    [][ (lastOp'.op = "updateWithFlavors" /\ Status # "terminating") =>
        Status' = IF \E i \in 1..Len(ResourceGroups) :
                       \E j \in 1..Len(ResourceGroups[i].flavors) :
                          ResourceGroups[i].flavors[j].name \notin DOMAIN lastOp'.reg
                  THEN "pending" ELSE "active" ]_vars

\* Witness C6: a queue whose second group names B became Active on a
\* reconcile (it was Pending before B was registered in some run).
ReconcileStatusWitness ==
    /\ lastOp.op = "updateWithFlavors"
    /\ Status = "active"
    /\ Len(ResourceGroups) = 2
    /\ Len(ResourceGroups[2].flavors) = 2

\* C7: after UpdateWithFlavors(registry), each group's LabelKeys is the union
\* of the node-label keys of its registered flavors, and empty for a group
\* without flavors.
ReconcileLabelKeys ==
    [][ lastOp'.op = "updateWithFlavors" =>
        \A i \in 1..Len(ResourceGroups') :
            ResourceGroups'[i].labelKeys =
                UNION { lastOp'.reg[ResourceGroups'[i].flavors[j].name] :
                          j \in { k \in 1..Len(ResourceGroups'[i].flavors) :
                                    ResourceGroups'[i].flavors[k].name \in DOMAIN lastOp'.reg } } ]_vars

RECURSIVE CommitmentSum(_, _, _)
CommitmentSum(ids, f, r) ==
    IF ids = {} THEN 0
    ELSE LET id == CHOOSE x \in ids : TRUE
         IN WorkloadCommitment(Workloads[id], f, r) + CommitmentSum(ids \ {id}, f, r)

\* C8: right after addLocalQueue(T) succeeds, T's admittedWorkloads is the
\* number of tracked workloads of T's namespace and queue name, and each
\* cell of T's usage (the cells of Usage) is the sum of those workloads'
\* commitments to it.
RegisterBackfill ==
    (lastOp.op = "addLocalQueue" /\ ~lastOp.err) =>
        \E q \in LocalQueueInputs :
            /\ QueueKey(q.ns, q.name) = lastOp.key
            /\ LET t == localQueues[lastOp.key]
                   mine == { id \in DOMAIN Workloads :
                               Workloads[id].ns = q.ns /\ Workloads[id].queue = q.name }
               IN /\ t.admittedWorkloads = Cardinality(mine)
                  /\ UsageCells(t.usage) = UsageCells(Usage)
                  /\ \A c \in UsageCells(t.usage) :
                        t.usage[c[1]][c[2]] = CommitmentSum(mine, c[1], c[2])

\* Witness C8: a queue registered after one of its workloads and one
\* workload of another namespace were admitted, with non-zero usage.
RegisterBackfillWitness ==
    /\ lastOp.op = "addLocalQueue" /\ ~lastOp.err
    /\ localQueues[lastOp.key].admittedWorkloads >= 1
    /\ \E id \in DOMAIN Workloads : Workloads[id].ns # "ns1"
    /\ \E c \in UsageCells(localQueues[lastOp.key].usage) :
          localQueues[lastOp.key].usage[c[1]][c[2]] > 0

\* The nominal quota of a declared cell.
NominalOf(rgs, f, r) ==
    LET fq == CHOOSE x \in UNION { { rgs[i].flavors[j] : j \in 1..Len(rgs[i].flavors) } : i \in 1..Len(rgs) } :
                  x.name = f /\ r \in DOMAIN x.res
    IN fq.res[r]

\* C9: IsBorrowing holds iff the queue has a Cohort and some declared cell
\* has Usage strictly above its nominal quota.
BorrowingPredicate ==
    IsBorrowing <=>
        /\ Cohort
        /\ \E c \in DeclaredCells(ResourceGroups) :
              HasCell(Usage, c[1], c[2]) /\ Usage[c[1]][c[2]] > NominalOf(ResourceGroups, c[1], c[2])

\* Witness C9: a cohort member uses 11 of a nominal 10 on A/gpu.
BorrowingPredicateWitness ==
    /\ Cohort
    /\ <<"A", "gpu">> \in DeclaredCells(ResourceGroups)
    /\ NominalOf(ResourceGroups, "A", "gpu") = 10
    /\ HasCell(Usage, "A", "gpu") /\ Usage["A"]["gpu"] = 11

\* C10: HasBorrowingQueues is TRUE iff some member queue IsBorrowing.
CohortBorrowing ==
    coResult # << >> =>
        coResult[1] = \E m \in coMembers : IsBorrowingOf(m.cohort, m.rgs, m.usage)

\* Witness C10: the cohort borrows although one of its members does not.
CohortBorrowingWitness ==
    /\ coResult = <<TRUE>>
    /\ \E m \in coMembers : ~IsBorrowingOf(m.cohort, m.rgs, m.usage)

\* C11: flavorInUse(f) is TRUE exactly when f is named in a FlavorQuotas
\* entry of a current ResourceGroup (so FALSE once a reconfiguration
\* removed f from every group).
FlavorInUseExact ==
    \A f \in FlavorNames :
        FlavorInUse(ResourceGroups, f) <=>
            \E i \in 1..Len(ResourceGroups) : \E j \in 1..Len(ResourceGroups[i].flavors) :
                ResourceGroups[i].flavors[j].name = f

\* Witness C11: after a successful reconfiguration, one flavor is in use
\* only through the second group and the other one is not in use.
FlavorInUseExactWitness ==
    /\ lastOp.op = "update" /\ ~lastOp.err
    /\ Len(ResourceGroups) = 2
    /\ FlavorInUse(ResourceGroups, "B")
    /\ \E j \in 1..Len(ResourceGroups[2].flavors) : ResourceGroups[2].flavors[j].name = "B"
    /\ \A j \in 1..Len(ResourceGroups[1].flavors) : ResourceGroups[1].flavors[j].name # "B"

\* C12: addWorkload of a tracked key returns an error and changes nothing;
\* deleteWorkload of an untracked key returns without changing any state.
DuplicateAndMissingNoOp ==
    [][ /\ (lastOp'.op = "addWorkload" /\ lastOp'.wl \in DOMAIN Workloads) => lastOp'.err
        /\ (lastOp'.op \in {"addWorkload", "deleteWorkload"} /\ lastOp'.err) =>
              UNCHANGED <<ResourceGroups, RGByResource, Usage, Workloads, WorkloadsNotReady,
                          NamespaceSelector, Preemption, Status, localQueues,
                          podsReadyTracking, Cohort>> ]_vars

\* Witness C12: a duplicate admit was rejected while a local queue counts
\* the tracked workload.
DuplicateAndMissingNoOpWitness ==
    /\ lastOp.op = "addWorkload" /\ lastOp.err
    /\ \E k \in DOMAIN localQueues : localQueues[k].admittedWorkloads > 0

\* C13: addLocalQueue of a registered key returns "already exists" and
\* changes nothing; deleteLocalQueue removes the key, and admits/removes
\* never register a key again.
LocalQueueRegistration ==
    [][ /\ (lastOp'.op = "addLocalQueue" /\ lastOp'.key \in DOMAIN localQueues) => lastOp'.err
        /\ (lastOp'.op = "addLocalQueue" /\ lastOp'.err) =>
              UNCHANGED <<ResourceGroups, RGByResource, Usage, Workloads, WorkloadsNotReady,
                          NamespaceSelector, Preemption, Status, localQueues,
                          podsReadyTracking, Cohort>>
        /\ lastOp'.op = "deleteLocalQueue" => lastOp'.key \notin DOMAIN localQueues'
        /\ lastOp'.op \in {"addWorkload", "deleteWorkload"} =>
              DOMAIN localQueues' \subseteq DOMAIN localQueues ]_vars

\* Witness C13: a local queue with a tracked workload was deregistered.
LocalQueueRegistrationWitness ==
    /\ lastOp.op = "deleteLocalQueue"
    /\ \E id \in DOMAIN Workloads : QueueKey(Workloads[id].ns, Workloads[id].queue) = lastOp.key

StreamsDone ==
    /\ streams.setup = << >> /\ streams.quota = << >> /\ streams.flv = << >>
    /\ streams.wl = << >> /\ streams.lq = << >>

\* The queue fields one generation's events act on, as a value: groups,
\* Usage, Status, tracked workloads, local queues, and the registry in force.
FStart(reg) ==
    [rgs |-> << >>, usage |-> NoUsage, status |-> "", wls |-> [w \in {} |-> Info1],
     lqs |-> [k \in {} |-> 0], reg |-> reg]

\* The quota-update event (Update with selector "all") on such a value.
FUpdate(s, cfg) ==
    LET rgs == BuildResourceGroups(cfg)
        u == PruneUsage(FlatFlavors(rgs), s.usage, NoUsage)
    IN [s EXCEPT !.rgs = UpdateLabelKeys(rgs, s.reg), !.usage = u,
                 !.status = StatusAfterFlavors(s.status, rgs, s.reg),
                 !.lqs = ResetLocalQueues(s.lqs, u)]

\* A flavor-registry event (UpdateWithFlavors) on such a value.
FFlavors(s, reg) ==
    [s EXCEPT !.rgs = UpdateLabelKeys(s.rgs, reg),
              !.status = StatusAfterFlavors(s.status, s.rgs, reg), !.reg = reg]

\* A workload event (addWorkload / deleteWorkload) on such a value.
FWorkload(s, e) ==
    IF e.kind = "add"
    THEN IF e.id \in DOMAIN s.wls THEN s
         ELSE [s EXCEPT !.wls = (e.id :> e.wi) @@ s.wls,
                        !.usage = UpdateUsage(e.wi, s.usage, 1),
                        !.lqs = UpdateLocalQueuesUsage(s.lqs, e.wi, 1)]
    ELSE IF e.id \notin DOMAIN s.wls THEN s
         ELSE LET wi == s.wls[e.id] IN
              [s EXCEPT !.wls = [x \in DOMAIN s.wls \ {e.id} |-> s.wls[x]],
                        !.usage = UpdateUsage(wi, s.usage, -1),
                        !.lqs = UpdateLocalQueuesUsage(s.lqs, wi, -1)]

\* A local-queue event (addLocalQueue / deleteLocalQueue) on such a value.
FLocalQueue(s, e) ==
    LET k == QueueKey(e.q.ns, e.q.name) IN
    IF e.kind = "add"
    THEN IF k \in DOMAIN s.lqs THEN s
         ELSE [s EXCEPT !.lqs = (k :> Backfill(DOMAIN s.wls, s.wls, e.q,
                                        [admittedWorkloads |-> 0,
                                         usage |-> ResetFlavorsAndResources(NoUsage, s.usage)]))
                                 @@ s.lqs]
    ELSE [s EXCEPT !.lqs = [x \in DOMAIN s.lqs \ {k} |-> s.lqs[x]]]

RECURSIVE FoldQuota(_, _)
FoldQuota(s, cfgs) == IF cfgs = << >> THEN s ELSE FoldQuota(FUpdate(s, Head(cfgs)), Tail(cfgs))

RECURSIVE FoldFlavors(_, _)
FoldFlavors(s, regs) == IF regs = << >> THEN s ELSE FoldFlavors(FFlavors(s, Head(regs)), Tail(regs))

RECURSIVE FoldWorkloads(_, _)
FoldWorkloads(s, es) == IF es = << >> THEN s ELSE FoldWorkloads(FWorkload(s, Head(es)), Tail(es))

RECURSIVE FoldLocalQueues(_, _)
FoldLocalQueues(s, es) == IF es = << >> THEN s ELSE FoldLocalQueues(FLocalQueue(s, Head(es)), Tail(es))

\* One interleaving of a generation that respects each stream's order:
\* setup, then the quota, flavor, workload and local-queue streams in turn.
Canonical(g) ==
    FoldLocalQueues(
        FoldWorkloads(
            FoldFlavors(FoldQuota(FoldQuota(FStart(g.reg), g.setup), g.quota), g.flv),
            g.wl),
        g.lq)

\* The final queue state the claim compares: Usage, Status, and each local
\* queue's admittedWorkloads and usage.
SameFinalState ==
    LET c == Canonical(streams.start) IN
    /\ Usage = c.usage
    /\ Status = c.status
    /\ localQueues = c.lqs

NotReadyTracked == WorkloadsNotReady \subseteq DOMAIN Workloads

\* The tracked workloads of local queue key k.
TenantWorkloads(k) ==
    { id \in DOMAIN Workloads : QueueKey(Workloads[id].ns, Workloads[id].queue) = k }

AccountingExact == acct.partial = {} /\ ~acct.partialRemoved

AbsentCellSkipped ==
    [][ /\ lastOp'.op \in {"addWorkload", "deleteWorkload"}
        /\ (lastOp'.op = "addWorkload") = (lastOp'.wl \notin DOMAIN Workloads)
        => /\ ~lastOp'.err
           /\ UsageCells(Usage') = UsageCells(Usage)
           /\ LET m  == IF lastOp'.op = "addWorkload" THEN 1 ELSE -1
                  wi == IF lastOp'.op = "addWorkload" THEN Workloads'[lastOp'.wl]
                                                       ELSE Workloads[lastOp'.wl]
              IN \A c \in UsageCells(Usage) :
                    Usage'[c[1]][c[2]] = Usage[c[1]][c[2]] + m * WorkloadCommitment(wi, c[1], c[2]) ]_vars

\* A successful admit of a workload with a commitment to an absent cell of a
\* present flavor, which still moved a present cell.
AbsentCellSkippedWitness ==
    /\ lastOp.op = "addWorkload"
    /\ ~lastOp.err
    /\ LET wi == Workloads[lastOp.wl] IN
       /\ \E f \in DOMAIN Usage, r \in Resources :
             ~HasCell(Usage, f, r) /\ WorkloadCommitment(wi, f, r) > 0
       /\ \E c \in UsageCells(Usage) : Usage[c[1]][c[2]] # lastOp.pre[c[1]][c[2]]

\* C18: every registered local queue's admittedWorkloads is the number of
\* tracked workloads with its namespace and queue name.
AdmittedCountExact ==
    \A k \in DOMAIN localQueues :
        localQueues[k].admittedWorkloads = Cardinality(TenantWorkloads(k))

\* A registered queue counting one workload right after a workload of
\* another queue was admitted.
AdmittedCountExactWitness ==
    /\ lastOp.op = "addWorkload"
    /\ ~lastOp.err
    /\ \E k \in DOMAIN localQueues :
          /\ localQueues[k].admittedWorkloads = 1
          /\ lastOp.wl \notin TenantWorkloads(k)

RGByResourceIndex ==
    /\ DOMAIN RGByResource = UNION {ResourceGroups[i].cov : i \in 1..Len(ResourceGroups)}
    /\ \A r \in DOMAIN RGByResource :
          {i \in 1..Len(ResourceGroups) : r \in ResourceGroups[i].cov} = {RGByResource[r]}

\* Two groups indexed, each resource to its own group.
RGByResourceIndexWitness ==
    /\ Len(ResourceGroups) = 2
    /\ RGByResource = ("cpu" :> 1 @@ "gpu" :> 2)

====
